---- MODULE Spec2Model ----
(***************************************************************************)
(* Progress reporting of ouch (src/progress.rs): the operation thread      *)
(* holding a ProgressByCursor / ProgressByPath controller and its          *)
(* DisplayHandle, the render thread spawned by `new`, the two mpsc         *)
(* channels between them (draw_stop and the message channel), and the      *)
(* progress source the render thread samples (the shared cursor or the     *)
(* output file on disk).                                                   *)
(***************************************************************************)
EXTENDS Integers, Sequences, FiniteSets, TLC

\* ------------------------------------------------------------------ bounds
\* Longest buffer of the display handle between two flushes.
MaxBuf == 2
\* Number of flush calls in one controller's lifetime.
MaxFlush == 2
\* Largest cursor position / output file length.
MaxPos == 1
MaxExts == 2

\* Bytes the operation thread writes: 195 169 is the UTF-8 encoding of
\* U+00E9; 169 alone (a stray continuation byte) and a trailing 195 (a
\* truncated sequence) are not well-formed.
ByteVals == {195, 169}

\* The slices handed to DisplayHandle::write.
Chunks == {<<195>>, <<169>>, <<195, 169>>}

Positions == 0..MaxPos

VARIABLES
    kind,           \* "none" before construction, then "cursor" or "path"
    op,             \* operation thread: "init", "running", "dropped", "panicked"
    panicCause,     \* why the operation thread panicked ("none" if it did not)
    lastOp,         \* last controller/handle operation the operation thread called
    flushThenClose, \* the controller was dropped right after a successful flush
    buf,            \* DisplayHandle.buf
    writes,         \* history: the slices written since the previous flush
    flushCalls,     \* history: number of flush calls so far
    msgQ,           \* messages in flight on the message channel
    sent,           \* history: every message sent on the message channel
    drawQ,          \* shutdown signals in flight on the draw_stop channel
    stopSent,       \* history: draw_stop.send(()) returned Ok
    rpc,            \* render thread: "none", "check", "sample", "drain", "done", "panicked"
    prefix,         \* the bar's prefix
    shown,          \* history: every prefix set on the bar
    pbPos,          \* the bar's position
    finishCalls,    \* history: number of pb.finish() calls
    cursorPos,      \* position of the caller's Cursor<Vec<u8>>
    cursorValid,    \* the caller's cursor is still alive
    readAfterDrop,  \* history: the render thread read the cursor after drop returned
    fileExists,     \* the output file is on disk
    fileLen,        \* its length
    pbLen,          \* the bar's length: total_input_size given to ProgressBar::new
    policy,         \* ProgressBarPolicy parsed from the command line: "Enable" or "Disable"
    extPc,          \* separate_known_extensions_from_name: "idle", "loop", "done", "panicked"
    extOrig,        \* original_path: the file name's dot-separated components
    extPath,        \* path: what is left of the name
    extList,        \* extensions
    extFile         \* the first bytes of the file at original_path, as try_infer sees them

vars == <<kind, op, panicCause, lastOp, flushThenClose, buf, writes, flushCalls,
          msgQ, sent, drawQ, stopSent, rpc, prefix, shown, pbPos, finishCalls,
          cursorPos, cursorValid, readAfterDrop, fileExists, fileLen,
          pbLen, policy, extPc, extOrig, extPath, extList, extFile>>

opVars == <<op, panicCause, lastOp, flushThenClose>>
handleVars == <<buf, writes, flushCalls>>
chanVars == <<msgQ, sent, drawQ, stopSent>>
barVars == <<prefix, shown, pbPos, finishCalls>>
cursorVars == <<cursorPos, cursorValid>>
fileVars == <<fileExists, fileLen>>
extVars == <<extPc, extOrig, extPath, extList, extFile>>

\* ------------------------------------------------------------ pure helpers

\* String::from_utf8 on the bytes of ByteVals' range: one-byte (below 128) and
\* two-byte (lead 194..223, continuation 128..191) sequences; the text is the
\* sequence of code points.
RECURSIVE FromUtf8(_)
FromUtf8(bs) ==
    IF bs = <<>> THEN [ok |-> TRUE, text |-> <<>>]
    ELSE LET b == Head(bs) IN
         IF b < 128
         THEN LET r == FromUtf8(Tail(bs)) IN
              [ok |-> r.ok, text |-> IF r.ok THEN <<b>> \o r.text ELSE <<>>]
         ELSE IF /\ b >= 194 /\ b <= 223 /\ Len(bs) >= 2
                 /\ bs[2] >= 128 /\ bs[2] <= 191
         THEN LET r == FromUtf8(SubSeq(bs, 3, Len(bs))) IN
              [ok |-> r.ok,
               text |-> IF r.ok THEN <<(b - 192) * 64 + (bs[2] - 128)>> \o r.text
                        ELSE <<>>]
         ELSE [ok |-> FALSE, text |-> <<>>]

\* cli.rs: enum ProgressBarPolicy and ProgressBarPolicy::is_enabled.
ProgressBarPolicy == {"Enable", "Disable"}

is_enabled(p) == p = "Enable"

\* A try_recv that hands over the newest message and discards the older ones.
TryRecvMsgLatest(q) ==
    IF q = <<>> THEN [ok |-> FALSE, msg |-> <<>>, rest |-> q]
    ELSE [ok |-> TRUE, msg |-> q[Len(q)], rest |-> <<>>]

\* A try_recv that hands over the oldest message and leaves it queued.
TryRecvMsgPeek(q) ==
    IF q = <<>> THEN [ok |-> FALSE, msg |-> <<>>, rest |-> q]
    ELSE [ok |-> TRUE, msg |-> Head(q), rest |-> q]

\* Receiver::try_recv on the message channel: the oldest message, if any.
TryRecvMsg(q) ==
    IF q = <<>> THEN [ok |-> FALSE, msg |-> <<>>, rest |-> q]
    ELSE [ok |-> TRUE, msg |-> Head(q), rest |-> Tail(q)]

\* The render thread owns both receivers; they live as long as it runs.
RxAlive == rpc \in {"check", "sample", "drain"}

\* ------------------------------------------------------------ construction

Init ==
    /\ kind = "none" /\ op = "init" /\ panicCause = "none" /\ lastOp = "none"
    /\ flushThenClose = FALSE
    /\ buf = <<>> /\ writes = <<>> /\ flushCalls = 0
    /\ msgQ = <<>> /\ sent = <<>> /\ drawQ = 0 /\ stopSent = FALSE
    /\ rpc = "none" /\ prefix = <<>> /\ shown = <<>> /\ pbPos = 0 /\ finishCalls = 0
    /\ cursorPos = 0 /\ cursorValid = TRUE /\ readAfterDrop = FALSE
    /\ fileExists \in BOOLEAN /\ fileLen = 0
    /\ pbLen = 0 /\ policy \in ProgressBarPolicy
    /\ extPc = "idle" /\ extOrig = <<>> /\ extPath = <<>> /\ extList = <<>>
    /\ extFile = [readable |-> FALSE, head |-> "none", ustar |-> FALSE]

\* ProgressByCursor::new: spawns the render thread, returns the controller.
NewCursor ==
    /\ op = "init"
    /\ \E t \in Positions : pbLen' = t
    /\ UNCHANGED <<policy, extVars>>
    /\ kind' = "cursor" /\ op' = "running" /\ lastOp' = "new" /\ rpc' = "check"
    /\ UNCHANGED <<panicCause, flushThenClose, handleVars, chanVars, barVars,
                   cursorVars, readAfterDrop, fileVars>>

\* ProgressByPath::new: canonicalize().unwrap() panics when the path is missing.
NewPath ==
    /\ op = "init"
    /\ UNCHANGED <<policy, extVars>>
    /\ IF fileExists
       THEN /\ kind' = "path" /\ op' = "running" /\ lastOp' = "new" /\ rpc' = "check"
            /\ \E t \in Positions : pbLen' = t
            /\ UNCHANGED panicCause
       ELSE /\ op' = "panicked" /\ panicCause' = "canonicalize"
            /\ UNCHANGED <<kind, lastOp, rpc, pbLen>>
    /\ UNCHANGED <<flushThenClose, handleVars, chanVars, barVars, cursorVars,
                   readAfterDrop, fileVars>>

\* -------------------------------------------------------- operation thread

\* A write that puts the new bytes in front of the buffered ones.
WriteBufPrepend(b, chunk) == chunk \o b

\* DisplayHandle::write: self.buf.extend(buf).
WriteBuf(b, chunk) == b \o chunk

Write(chunk) ==
    /\ UNCHANGED <<pbLen, policy, extVars>>
    /\ op = "running"
    /\ Len(buf) + Len(chunk) <= MaxBuf
    /\ buf' = WriteBuf(buf, chunk)
    /\ writes' = Append(writes, chunk)
    /\ lastOp' = "write"
    /\ UNCHANGED <<kind, op, panicCause, flushThenClose, flushCalls, chanVars, rpc,
                   barVars, cursorVars, readAfterDrop, fileVars>>

\* Sender::send on draw_stop: Ok while the receiver lives, Err once it is gone.
SendStop(alive) == IF alive THEN "ok" ELSE "err"

\* A drop that unwraps the send's result instead of discarding it.
DropOutcomeUnwrap(res) == IF res = "ok" THEN "returned" ELSE "panicked"

\* Drop::drop: `let _ = self.draw_stop.send(())` discards the send's result.
DropOutcome(res) == "returned"

\* The effect of dropping the controller on the draw_stop channel.
DropSignal ==
    /\ drawQ' = IF SendStop(RxAlive) = "ok" THEN drawQ + 1 ELSE drawQ
    /\ stopSent' = (stopSent \/ SendStop(RxAlive) = "ok")

\* The controller goes out of scope in the caller.
Drop ==
    /\ UNCHANGED <<pbLen, policy, extVars>>
    /\ op = "running"
    /\ DropSignal
    /\ IF DropOutcome(SendStop(RxAlive)) = "returned"
       THEN op' = "dropped" /\ UNCHANGED panicCause
       ELSE op' = "panicked" /\ panicCause' = "drop"
    /\ flushThenClose' = (lastOp = "flush")
    /\ lastOp' = "drop"
    /\ UNCHANGED <<kind, handleVars, msgQ, sent, rpc, barVars, cursorVars,
                   readAfterDrop, fileVars>>

\* A bounded channel of capacity 1: send waits while a message is queued.
SendWouldBlockBounded(q) == Len(q) >= 1

\* Sender::send on a channel made by mpsc::channel(): the channel is unbounded
\* and send never waits for the receiver, whatever is queued.
SendWouldBlock(q) == FALSE

\* What `.unwrap()` makes of String::from_utf8's result in flush.
FlushDecode(r) == IF r.ok THEN "text" ELSE "panic"

\* What `.unwrap()` makes of sender.send's result in flush.
FlushSend(alive) == IF alive THEN "sent" ELSE "panic"

\* A flush that sends the buffered bytes and keeps them buffered.
FlushDrainKeep(b) == b

\* The buffer after `self.buf.drain(..).collect()`.
FlushDrain(b) == <<>>

\* DisplayHandle::flush.  A panic unwinds the operation thread, which drops
\* the controller on the way (its Drop sends the shutdown signal).
Flush ==
    /\ UNCHANGED <<pbLen, policy, extVars>>
    /\ op = "running"
    /\ flushCalls < MaxFlush
    /\ flushCalls' = flushCalls + 1
    /\ buf' = FlushDrain(buf)
    /\ writes' = <<>>
    /\ lastOp' = "flush"
    /\ (FromUtf8(buf).ok /\ RxAlive) => ~SendWouldBlock(msgQ)
    /\ LET r == FromUtf8(buf) IN
       IF FlushDecode(r) = "panic"
       THEN /\ op' = "panicked" /\ panicCause' = "utf8"
            /\ DropSignal
            /\ UNCHANGED <<msgQ, sent>>
       ELSE IF FlushSend(RxAlive) = "panic"
       THEN /\ op' = "panicked" /\ panicCause' = "send"
            /\ DropSignal
            /\ UNCHANGED <<msgQ, sent>>
       ELSE /\ msgQ' = Append(msgQ, r.text)
            /\ sent' = Append(sent, r.text)
            /\ UNCHANGED <<op, panicCause, drawQ, stopSent>>
    /\ UNCHANGED <<kind, flushThenClose, rpc, barVars, cursorVars, readAfterDrop,
                   fileVars>>

\* The zip writer writes to and seeks in the cursor while the archive is built.
CursorMove(p) ==
    /\ UNCHANGED <<pbLen, policy, extVars>>
    /\ op = "running" /\ kind = "cursor"
    /\ p # cursorPos
    /\ cursorPos' = p
    /\ UNCHANGED <<kind, opVars, handleVars, chanVars, rpc, barVars, cursorValid,
                   readAfterDrop, fileVars>>

\* The caller keeps the cursor until the controller is dropped (the contract
\* of ProgressByCursor::new) and may let it go afterwards.
CursorFree ==
    /\ UNCHANGED <<pbLen, policy, extVars>>
    /\ kind = "cursor" /\ op \in {"dropped", "panicked"}
    /\ cursorValid
    /\ cursorValid' = FALSE
    /\ UNCHANGED <<kind, opVars, handleVars, chanVars, rpc, barVars, cursorPos,
                   readAfterDrop, fileVars>>

\* ------------------------------------------------------- output file on disk

FileCreate ==
    /\ UNCHANGED <<pbLen, policy, extVars>>
    /\ ~fileExists
    /\ fileExists' = TRUE /\ fileLen' = 0
    /\ UNCHANGED <<kind, opVars, handleVars, chanVars, rpc, barVars, cursorVars,
                   readAfterDrop>>

FileResize(l) ==
    /\ UNCHANGED <<pbLen, policy, extVars>>
    /\ kind = "path" /\ fileExists
    /\ l # fileLen
    /\ fileLen' = l
    /\ UNCHANGED <<kind, opVars, handleVars, chanVars, rpc, barVars, cursorVars,
                   readAfterDrop, fileExists>>

FileRemove ==
    /\ UNCHANGED <<pbLen, policy, extVars>>
    /\ kind \in {"none", "path"} /\ fileExists
    /\ fileExists' = FALSE /\ fileLen' = 0
    /\ UNCHANGED <<kind, opVars, handleVars, chanVars, rpc, barVars, cursorVars,
                   readAfterDrop>>

\* ------------------------------------------------------------ render thread

\* A loop condition turned around: Ok(()) when nothing is queued.
TryRecvDrawInverted(n) == IF n > 0 THEN "err" ELSE "ok"

\* draw_rx.try_recv() at the head of the loop: Ok(()) when a signal is queued.
TryRecvDraw(n) == IF n > 0 THEN "ok" ELSE "err"

\* A loop that calls pb.finish() on the signal and then goes on with the tick.
RenderCheckNoBreak ==
    /\ UNCHANGED <<pbLen, policy, extVars>>
    /\ rpc = "check"
    /\ IF drawQ > 0
       THEN drawQ' = drawQ - 1 /\ finishCalls' = 1
       ELSE UNCHANGED <<drawQ, finishCalls>>
    /\ rpc' = IF kind = "cursor" THEN "sample" ELSE "drain"
    /\ UNCHANGED <<kind, opVars, handleVars, msgQ, sent, stopSent, prefix, shown,
                   pbPos, cursorVars, readAfterDrop, fileVars>>

\* `while draw_rx.try_recv().is_err()`; on Ok the loop ends, pb.finish() runs
\* and the thread terminates.
RenderCheck ==
    /\ UNCHANGED <<pbLen, policy, extVars>>
    /\ rpc = "check"
    /\ IF TryRecvDraw(drawQ) = "ok"
       THEN /\ drawQ' = drawQ - 1
            /\ finishCalls' = finishCalls + 1
            /\ rpc' = "done"
            /\ msgQ' = <<>>
       ELSE /\ rpc' = IF kind = "cursor" THEN "sample" ELSE "drain"
            /\ UNCHANGED <<drawQ, finishCalls, msgQ>>
    /\ UNCHANGED <<kind, opVars, handleVars, sent, stopSent, prefix, shown, pbPos,
                   cursorVars, readAfterDrop, fileVars>>

\* pb.set_position(unsafe { &*cursor }.position()): a read through a dangling
\* pointer yields any value.
RenderSampleCursor ==
    /\ UNCHANGED <<pbLen, policy, extVars>>
    /\ rpc = "sample" /\ kind = "cursor"
    /\ \E p \in Positions :
         /\ cursorValid => p = cursorPos
         /\ pbPos' = p
    /\ readAfterDrop' = (readAfterDrop \/ op \in {"dropped", "panicked"})
    /\ rpc' = "drain"
    /\ UNCHANGED <<kind, opVars, handleVars, chanVars, prefix, shown, finishCalls,
                   cursorVars, fileVars>>

\* A set_prefix that keeps the prefix it has when the message is empty.
SetPrefixKeepOnEmpty(old, msg) == IF msg = <<>> THEN old ELSE msg

\* pb.set_prefix(msg): the message replaces the prefix.
SetPrefix(old, msg) == msg

\* `if let Ok(msg) = msg_rx.try_recv() { pb.set_prefix(msg) }`; in the cursor
\* loop the sleep follows and the next tick begins.
RenderDrain ==
    /\ UNCHANGED <<pbLen, policy, extVars>>
    /\ rpc = "drain"
    /\ LET r == TryRecvMsg(msgQ) IN
       /\ msgQ' = r.rest
       /\ prefix' = IF r.ok THEN SetPrefix(prefix, r.msg) ELSE prefix
       /\ shown' = IF r.ok THEN Append(shown, r.msg) ELSE shown
    /\ rpc' = IF kind = "cursor" THEN "check" ELSE "sample"
    /\ UNCHANGED <<kind, opVars, handleVars, sent, drawQ, stopSent, pbPos,
                   finishCalls, cursorVars, readAfterDrop, fileVars>>

\* output_file_path.metadata(): Ok with the length while the file exists.
Metadata == IF fileExists THEN [ok |-> TRUE, len |-> fileLen]
            ELSE [ok |-> FALSE, len |-> 0]

\* pb.set_position(output_file_path.metadata().unwrap().len()), then the
\* sleep.  The unwrap panics the render thread when the file is missing; its
\* receivers, and what is queued on them, go with it.
RenderSamplePath ==
    /\ UNCHANGED <<pbLen, policy, extVars>>
    /\ rpc = "sample" /\ kind = "path"
    /\ IF Metadata.ok
       THEN /\ pbPos' = Metadata.len /\ rpc' = "check"
            /\ UNCHANGED <<msgQ, drawQ>>
       ELSE /\ rpc' = "panicked" /\ msgQ' = <<>> /\ drawQ' = 0
            /\ UNCHANGED pbPos
    /\ UNCHANGED <<kind, opVars, handleVars, sent, stopSent, prefix, shown,
                   finishCalls, cursorVars, readAfterDrop, fileVars>>

RenderStep ==
    \/ RenderCheck
    \/ RenderSampleCursor
    \/ RenderDrain
    \/ RenderSamplePath

\* ------------------------------------------------------------ specification

Next ==
    \/ NewCursor
    \/ NewPath
    \/ \E chunk \in Chunks : Write(chunk)
    \/ Flush
    \/ Drop
    \/ \E p \in Positions : CursorMove(p)
    \/ CursorFree
    \/ FileCreate
    \/ \E l \in Positions : FileResize(l)
    \/ FileRemove
    \/ RenderCheck
    \/ RenderSampleCursor
    \/ RenderDrain
    \/ RenderSamplePath

Spec == Init /\ [][Next]_vars

\* The render thread is a running OS thread that sleeps 100 ms per tick: it
\* is scheduled again and again.
FairSpec == Spec /\ WF_vars(RenderStep)

\* --------------------------------------------- status lines of the archivers

\* The tags written by _info_helper ("[INFO] ") and _warning_helper
\* ("Warning: ", or "[WARNING] " in accessible mode), one letter each.
InfoTag == <<73>>
WarnTag == <<87>>
WarnTagAccessible == <<91>>
StatusTags == {InfoTag, WarnTag, WarnTagAccessible}

\* The formatted status texts ("Compressing '<path>'.", "<path> extracted.
\* (<size>)"): plain ASCII, or with a non-ASCII path.
StatusBodies == {<<67>>, <<195, 169>>}

\* info!(@handle, ..) / warning!(@handle, ..): the helper writes the tag first.
EmitTag(tag) ==
    /\ writes = <<>>
    /\ Write(tag)

\* write!(handle, ..): the status text, after the tag if there is one.
EmitBody(text) ==
    /\ writes = <<>> \/ (Len(writes) = 1 /\ writes[1] \in StatusTags)
    /\ Write(text)

\* The flush that follows the text in each of these paths.
EmitFlush ==
    /\ writes # <<>> /\ writes[Len(writes)] \in StatusBodies
    /\ Flush

\* The archive function returns between two status lines and the caller lets
\* the controller go.
StatusDrop ==
    /\ writes = <<>>
    /\ Drop

StatusNext ==
    \/ NewCursor
    \/ NewPath
    \/ \E tag \in StatusTags : EmitTag(tag)
    \/ \E text \in StatusBodies : EmitBody(text)
    \/ EmitFlush
    \/ StatusDrop
    \/ RenderCheck
    \/ RenderSampleCursor
    \/ RenderDrain
    \/ RenderSamplePath

\* The operation thread uses the display handle only through the status
\* paths; the progress source stays as it is.
StatusSpec == Init /\ [][StatusNext]_vars

\* ------------------------------------------------------------ extension.rs

\* The file names given to extensions_from_path, as their dot-separated
\* components: <<"bolovo", "tar", "gz">> is bolovo.tar.gz, <<"", "gz">> is .gz.
Stems == {"bolovo", ""}
ExtWords == {"tar", "gz", "tgz", "tzst", "txt", ""}
ExtTails == UNION {[1..n -> ExtWords] : n \in 0..MaxExts}
Names == {<<st>> \o t : st \in Stems, t \in ExtTails}

\* What File::open and read give try_infer: whether the file can be opened,
\* the magic at offset 0 and whether "ustar" stands at offset 257.
Heads == {"none", "zip", "gz", "lz"}
Files == {[readable |-> FALSE, head |-> "none", ustar |-> FALSE]}
         \cup [readable : {TRUE}, head : Heads, ustar : BOOLEAN]

\* Extension::new(formats, text)
Extension(formats, text) == [compression_formats |-> formats, display_text |-> text]

\* The match in the loop: the Extension of a known word, <<>> for `_ => break`.
ExtensionMatch(e) ==
    CASE e = "tar" -> <<Extension(<<"Tar">>, e)>>
      [] e = "tgz" -> <<Extension(<<"Tar", "Gzip">>, e)>>
      [] e \in {"tbz", "tbz2"} -> <<Extension(<<"Tar", "Bzip">>, e)>>
      [] e \in {"txz", "tlz", "tlzma"} -> <<Extension(<<"Tar", "Lzma">>, e)>>
      [] e = "tzst" -> <<Extension(<<"Tar", "Zstd">>, ".tzst")>>
      [] e = "zip" -> <<Extension(<<"Zip">>, e)>>
      [] e \in {"bz", "bz2"} -> <<Extension(<<"Bzip">>, e)>>
      [] e = "gz" -> <<Extension(<<"Gzip">>, e)>>
      [] e \in {"xz", "lzma", "lz"} -> <<Extension(<<"Lzma">>, e)>>
      [] e = "zst" -> <<Extension(<<"Zstd">>, e)>>
      [] OTHER -> <<>>

\* Path::extension: None without an embedded dot, for a name that begins
\* with a dot and has no other, and for "." and ".." (no file name).
PathExtension(path) ==
    IF \/ Len(path) <= 1
       \/ Len(path) = 2 /\ path[1] = ""
       \/ Len(path) = 3 /\ \A i \in 1..3 : path[i] = ""
    THEN [some |-> FALSE, text |-> ""]
    ELSE [some |-> TRUE, text |-> path[Len(path)]]

\* Path::file_stem of a path that has an extension.
FileStem(path) == SubSeq(path, 1, Len(path) - 1)

\* Vec::reverse
ExtReverse(l) == [i \in 1..Len(l) |-> l[Len(l) + 1 - i]]

\* try_infer after the file was read: the first magic that matches.
TryInfer(f) ==
    IF f.head = "zip" THEN <<Extension(<<"Zip">>, "zip")>>
    ELSE IF f.ustar THEN <<Extension(<<"Tar">>, "tar")>>
    ELSE IF f.head = "gz" THEN <<Extension(<<"Gzip">>, "gz")>>
    ELSE IF f.head = "bz2" THEN <<Extension(<<"Bzip">>, "bz2")>>
    ELSE IF f.head = "xz" THEN <<Extension(<<"Lzma">>, "xz")>>
    ELSE IF f.head = "lz" THEN <<Extension(<<"Lzma">>, "lz")>>
    ELSE <<>>

\* A call of extensions_from_path(name) with the file at name as it is.
ExtCall(name, f) ==
    /\ extPc = "idle"
    /\ extPc' = "loop" /\ extOrig' = name /\ extPath' = name
    /\ extList' = <<>> /\ extFile' = f
    /\ UNCHANGED <<kind, opVars, handleVars, chanVars, rpc, barVars, cursorVars,
                   readAfterDrop, fileVars, pbLen, policy>>

\* One turn of `while let Some(extension) = path.extension()`: a known word
\* is pushed and the path becomes its stem.
ExtGrab ==
    /\ extPc = "loop"
    /\ PathExtension(extPath).some
    /\ ExtensionMatch(PathExtension(extPath).text) # <<>>
    /\ extList' = extList \o ExtensionMatch(PathExtension(extPath).text)
    /\ extPath' = FileStem(extPath)
    /\ UNCHANGED <<extPc, extOrig, extFile>>
    /\ UNCHANGED <<kind, opVars, handleVars, chanVars, rpc, barVars, cursorVars,
                   readAfterDrop, fileVars, pbLen, policy>>

\* The loop ends (no extension, or `_ => break`); extensions.reverse(); an
\* empty list goes to try_infer, whose File::open(..).unwrap() panics when
\* the file cannot be opened.
ExtFinish ==
    /\ extPc = "loop"
    /\ \/ ~PathExtension(extPath).some
       \/ ExtensionMatch(PathExtension(extPath).text) = <<>>
    /\ IF ExtReverse(extList) # <<>>
       THEN extPc' = "done" /\ extList' = ExtReverse(extList)
       ELSE IF extFile.readable
            THEN extPc' = "done" /\ extList' = TryInfer(extFile)
            ELSE extPc' = "panicked" /\ extList' = <<>>
    /\ UNCHANGED <<extOrig, extPath, extFile>>
    /\ UNCHANGED <<kind, opVars, handleVars, chanVars, rpc, barVars, cursorVars,
                   readAfterDrop, fileVars, pbLen, policy>>

ExtNext ==
    \/ \E name \in Names, f \in Files : ExtCall(name, f)
    \/ ExtGrab
    \/ ExtFinish

ExtSpec == Init /\ [][ExtNext]_vars

TypeOK ==
    /\ policy \in ProgressBarPolicy
    /\ kind \in {"none", "cursor", "path"}
    /\ op \in {"init", "running", "dropped", "panicked"}
    /\ rpc \in {"none", "check", "sample", "drain", "done", "panicked"}
    /\ Len(buf) <= MaxBuf /\ flushCalls <= MaxFlush
    /\ pbPos \in Positions /\ cursorPos \in Positions /\ fileLen \in Positions
    /\ drawQ \in 0..1 /\ finishCalls \in 0..1
    /\ extPc \in {"idle", "loop", "done", "panicked"}
    /\ extOrig \in Names \cup {<<>>} /\ extFile \in Files

\* ------------------------------------------------------------------ claims

\* String::as_bytes: the UTF-8 encoding of a text of code points below 2048.
RECURSIVE AsBytes(_)
AsBytes(text) ==
    IF text = <<>> THEN <<>>
    ELSE LET c == Head(text) IN
         (IF c < 128 THEN <<c>> ELSE <<192 + (c \div 64), 128 + (c % 64)>>)
         \o AsBytes(Tail(text))

\* The slices of a sequence of writes, one after the other.
RECURSIVE Concat(_)
Concat(ws) == IF ws = <<>> THEN <<>> ELSE Head(ws) \o Concat(Tail(ws))

\* The texts whose encoding fits the buffer.
CodePoints == {65, 233}
Texts == UNION {[1..n -> CodePoints] : n \in 0..MaxBuf}
WellFormed(bs) == \E t \in Texts : AsBytes(t) = bs

\* A step that is a call of flush / a drain by the render thread.
FlushStep == flushCalls' = flushCalls + 1
DrainStep == rpc = "drain" /\ rpc' # "drain"

\* C1: when the controller's drop has returned, the render thread has already
\* called pb.finish() and terminated.
C1_FinishedWhenDropReturns ==
    op = "dropped" => (rpc = "done" /\ finishCalls = 1)

\* C2 (as stated): every flush sends exactly one message, equal to the
\* concatenation of the bytes written since the previous flush, and leaves
\* the buffer empty.
C2_EveryFlushSendsOne ==
    [][FlushStep =>
        /\ Len(sent') = Len(sent) + 1
        /\ msgQ' = Append(msgQ, sent'[Len(sent')])
        /\ AsBytes(sent'[Len(sent')]) = Concat(writes)
        /\ buf' = <<>>]_vars

\* C2 (amended): every flush leaves the buffer empty; when the bytes written
\* since the previous flush are well-formed UTF-8 and the render thread still
\* holds the receiver, the flush sends exactly one message, whose bytes are
\* the concatenation of those writes in call order; otherwise it sends none.
C2_FlushSendsConcatenation ==
    [][FlushStep =>
        /\ buf' = <<>>
        /\ IF WellFormed(Concat(writes)) /\ RxAlive
           THEN /\ Len(sent') = Len(sent) + 1
                /\ SubSeq(sent', 1, Len(sent)) = sent
                /\ msgQ' = Append(msgQ, sent'[Len(sent')])
                /\ AsBytes(sent'[Len(sent')]) = Concat(writes)
           ELSE sent' = sent /\ msgQ' = msgQ]_vars

\* C2 witness: a flush has just sent the text U+00E9, and an earlier message
\* was sent before it.
C2_Witness ==
    /\ op = "running" /\ lastOp = "flush" /\ buf = <<>>
    /\ Len(sent) = 2 /\ sent[2] = <<233>>
    /\ msgQ # <<>> /\ msgQ[Len(msgQ)] = <<233>>

C4_FinalPrefixIsLastMessage ==
    (flushThenClose /\ rpc = "done") => prefix = sent[Len(sent)]

\* C5: once the shutdown signal is sent, the render thread eventually calls
\* pb.finish() exactly once and terminates.
C5_ShutdownLeadsToFinish ==
    stopSent ~> (rpc = "done" /\ finishCalls = 1)

\* C6: dropping the controller after the render thread has exited (the
\* draw_stop receiver is gone) returns without a panic, and a drop is never
\* blocked.
C6_DropAfterRenderExit ==
    /\ [](op = "running" => ENABLED Drop)
    /\ [][(lastOp' = "drop" /\ lastOp # "drop" /\ ~RxAlive) =>
            (op' = "dropped" /\ panicCause' = "none")]_vars

\* C6 witness: the controller was dropped after the render thread had died,
\* so the send failed.
C6_Witness ==
    op = "dropped" /\ rpc = "panicked" /\ ~stopSent /\ lastOp = "drop"

\* C7: a flush after the render thread has terminated returns without a panic.
C7_FlushAfterRenderExit ==
    panicCause # "send"

\* C8: a flush of bytes that are not well-formed UTF-8 returns an error; it
\* does not panic.
C8_FlushInvalidUtf8 ==
    panicCause # "utf8"

\* C9: with the cursor kept valid until the controller is dropped, the render
\* thread never reads the cursor after the drop has completed.
C9_NoCursorReadAfterDrop ==
    ~readAfterDrop

\* C10: a missing output path panics neither thread (the sample counts as 0).
C10_MissingPathTolerated ==
    panicCause # "canonicalize" /\ rpc # "panicked"

\* C11: the position set on the bar never exceeds the total given at
\* construction.
C11_PositionWithinTotal ==
    rpc # "none" => pbPos <= pbLen

\* C12: every flushed message is observed by the render thread exactly once:
\* when the thread has finished the bar, the prefixes it set are the messages
\* sent, one for one.
C12_EveryMessageShown ==
    rpc = "done" => shown = sent

\* C14: at most one shutdown signal is ever sent on draw_stop, and pb.finish()
\* is called only on receiving it.
C14_OneSignalOnlyCause ==
    /\ [][(drawQ' > drawQ) => (~stopSent /\ stopSent' /\ drawQ = 0 /\ drawQ' = 1)]_vars
    /\ [][(finishCalls' # finishCalls) =>
            (rpc = "check" /\ drawQ = 1 /\ drawQ' = 0 /\ stopSent
             /\ finishCalls = 0 /\ finishCalls' = 1 /\ rpc' = "done")]_vars

\* C14 witness: the one signal was sent and received, and the bar finished.
C14_Witness ==
    stopSent /\ drawQ = 0 /\ rpc = "done" /\ finishCalls = 1 /\ op = "dropped"

\* C15: write and flush never wait for the render thread: while the
\* controller lives each is a single step of the operation thread that can
\* be taken in every state of the render thread and of the message queue.
C15_HandleNeverWaits ==
    op = "running" =>
        /\ flushCalls < MaxFlush => ENABLED Flush
        /\ \A c \in Chunks : Len(buf) + Len(c) <= MaxBuf => ENABLED Write(c)

\* C15 witness: a flush has just returned although the render thread has not
\* run at all and an earlier message is still undrained.
C15_Witness ==
    /\ op = "running" /\ lastOp = "flush" /\ rpc = "check"
    /\ shown = <<>> /\ Len(msgQ) >= 2

\* a is b with some elements left out, the order kept.
RECURSIVE IsSubseq(_, _)
IsSubseq(a, b) ==
    IF a = <<>> THEN TRUE
    ELSE IF b = <<>> THEN FALSE
    ELSE IF Head(a) = Head(b) THEN IsSubseq(Tail(a), Tail(b))
    ELSE IsSubseq(a, Tail(b))

\* C18: the prefixes set on the bar are, in order, a subsequence of the
\* messages flushed: none is shown twice, none after a later one.
C18_ShownIsSubsequence ==
    /\ Len(shown) <= Len(sent)
    /\ IsSubseq(shown, sent)

\* C18 witness: two different messages were shown, in the order sent.
C18_Witness ==
    Len(shown) = 2 /\ shown[1] # shown[2] /\ shown = sent

\* C19: once the render thread has seen the shutdown signal and finished the
\* bar, it takes no further step: no sample, no position or prefix update.
C19_NothingAfterFinish ==
    [][(finishCalls > 0) =>
        /\ rpc = "done" /\ rpc' = "done"
        /\ pbPos' = pbPos /\ prefix' = prefix /\ shown' = shown
        /\ finishCalls' = finishCalls /\ readAfterDrop' = readAfterDrop]_vars

\* C19 witness: the bar was finished with a sent message never shown and the
\* source ahead of the bar's position.
C19_Witness ==
    /\ rpc = "done" /\ finishCalls = 1 /\ Len(sent) > Len(shown)
    /\ kind = "path" /\ fileExists /\ fileLen # pbPos

\* The status lines as bytes: a text, with or without a tag in front.
StatusLines == {t \o b : t \in StatusTags \cup {<<>>}, b \in StatusBodies}

\* C16: every status path ends with a flush: once a path has completed the
\* buffer is empty, one message was sent per flush, and each message is one
\* whole status line, its tag included.
C16_StatusLinesFlushed ==
    /\ lastOp \in {"flush", "drop"} => buf = <<>>
    /\ panicCause = "none" => Len(sent) = flushCalls
    /\ \A i \in 1..Len(sent) : AsBytes(sent[i]) \in StatusLines

\* C16 witness: a tagged line and an untagged non-ASCII line were delivered as
\* two messages and the buffer is empty.
C16_Witness ==
    /\ op = "running" /\ lastOp = "flush" /\ buf = <<>>
    /\ Len(sent) = 2
    /\ AsBytes(sent[1]) = InfoTag \o <<67>>
    /\ AsBytes(sent[2]) = <<195, 169>>

KnownTailLen(name) ==
    LET ks == {k \in 0..(Len(name) - 1) :
                 /\ \A i \in (Len(name) - k + 1)..Len(name) : ExtensionMatch(name[i]) # <<>>
                 /\ \A j \in 1..k : PathExtension(SubSeq(name, 1, Len(name) + 1 - j)).some}
    IN CHOOSE k \in ks : \A m \in ks : m <= k

KnownTail(name) ==
    [i \in 1..KnownTailLen(name) |->
        ExtensionMatch(name[Len(name) - KnownTailLen(name) + i])[1]]

\* Extension::iter flat-mapped over the list: the formats, in order.
RECURSIVE Formats(_)
Formats(l) == IF l = <<>> THEN <<>> ELSE Head(l).compression_formats \o Formats(Tail(l))

\* C17: extensions_from_path returns the known extensions at the tail of the
\* name, left to right, stopping at the first unrecognised one from the
\* right; the flattened formats keep that order.
C17_KnownTailReturned ==
    extPc \in {"done", "panicked"} =>
        /\ extPc = "done"
        /\ extList = KnownTail(extOrig)
        /\ Formats(extList) = Formats(KnownTail(extOrig))

\* The part of C17 that holds: a name with a known extension at its tail
\* yields exactly those, left to right (bolovo.tar.gz gives Tar, Gzip).
KnownTailReturnedWhenPresent ==
    /\ extPc \in {"done", "panicked"} /\ KnownTail(extOrig) # <<>> =>
        extPc = "done" /\ extList = KnownTail(extOrig)
    /\ extPc = "done" /\ extOrig = <<"bolovo", "tar", "gz">> =>
        Formats(extList) = <<"Tar", "Gzip">>

\* Without a known extension the file decides: inferred from its magic, or
\* a panic when it cannot be opened.
InferredWhenAbsent ==
    extPc \in {"done", "panicked"} /\ KnownTail(extOrig) = <<>> =>
        IF extFile.readable THEN extPc = "done" /\ extList = TryInfer(extFile)
        ELSE extPc = "panicked"

\* The shutdown channel's sender goes away only with its controller, and the
\* controller's drop sends the signal first: a render thread still in its
\* loop never meets a disconnected shutdown channel on which no signal was sent.
SenderGoneOnlyAfterSignal ==
    op \in {"dropped", "panicked"} /\ RxAlive => stopSent

\* C21: the position shown by the bar never decreases from one tick of a
\* render thread to the next, whatever the cursor or the output file does.
C21_PositionMonotone ==
    [][pbPos' >= pbPos]_vars

====
